---- MODULE Spec2Model ----
(***************************************************************************)
(* The /explain endpoint of MeScience: the two copies of explain_topic     *)
(* (src/main.py and src/api/index.py), the text cleanup and JSON parsing   *)
(* they apply to the model's output, and the responses they produce.       *)
(*                                                                         *)
(* Text is a sequence of characters (one-character strings), so that      *)
(* str.replace, str.strip and json.loads act on characters as they do in   *)
(* Python.                                                                 *)
(* Opaque strings that the code only passes along (the topic, an           *)
(* exception's message, the HTTP detail) stay TLA+ strings.                *)
(***************************************************************************)
EXTENDS Integers, Sequences, FiniteSets, TLC

\* ------------------------------------------------------------------ bounds

\* The longest upstream text, in pieces of Pieces.
MaxPieces == 3

\* The number of requests in flight in the concurrent specification.
NReq == 2

\* The nesting depth at which CPython's json scanner raises RecursionError
\* (Py_EnterRecursiveCall in scan_once; about 1000 by default, less the
\* frames already on the stack). The interpreter sets it, not this
\* repository; the model scales it down and DeepNest always exceeds it.
RecursionLimit == 2

\* ------------------------------------------------------------ small helpers

\* The least index j >= lo with s[j] outside W, Len(s) + 1 when there is none.
FirstOutside(s, lo, W) ==
  IF \E j \in lo..Len(s) : s[j] \notin W
  THEN CHOOSE j \in lo..Len(s) : s[j] \notin W /\ \A k \in lo..(j - 1) : s[k] \in W
  ELSE Len(s) + 1

\* The greatest index j with s[j] outside W, 0 when there is none.
LastOutside(s, W) ==
  IF \E j \in 1..Len(s) : s[j] \notin W
  THEN CHOOSE j \in 1..Len(s) : s[j] \notin W /\ \A k \in (j + 1)..Len(s) : s[k] \in W
  ELSE 0

\* The least index j >= lo with s[j] = c, Len(s) + 1 when there is none.
FirstChar(s, lo, c) ==
  IF \E j \in lo..Len(s) : s[j] = c
  THEN CHOOSE j \in lo..Len(s) : s[j] = c /\ \A k \in lo..(j - 1) : s[k] # c
  ELSE Len(s) + 1

\* ------------------------------------------------- string literals of the code

\* The backquote character (U+0060 GRAVE ACCENT), which a TLA+ string cannot hold.
BQ == "GRAVE"

\* The two literals explain_topic removes: three backquotes followed by json,
\* and three backquotes.
FENCE_JSON == <<BQ, BQ, BQ, "j", "s", "o", "n">>
FENCE == <<BQ, BQ, BQ>>

K_what_it_is ==
  <<"w", "h", "a", "t", "_", "i", "t", "_", "i", "s">>
K_human_connection ==
  <<"h", "u", "m", "a", "n", "_", "c", "o", "n", "n", "e", "c", "t", "i", "o", "n">>
K_social_influence ==
  <<"s", "o", "c", "i", "a", "l", "_", "i", "n", "f", "l", "u", "e", "n", "c", "e">>
K_relevant_studies ==
  <<"r", "e", "l", "e", "v", "a", "n", "t", "_", "s", "t", "u", "d", "i", "e", "s">>
K_confidence_level ==
  <<"c", "o", "n", "f", "i", "d", "e", "n", "c", "e", "_", "l", "e", "v", "e", "l">>
K_confidence_reason ==
  <<"c", "o", "n", "f", "i", "d", "e", "n", "c", "e", "_", "r", "e", "a", "s", "o", "n">>
S_error_parsing ==
  <<"E", "r", "r", "o", "r", " ", "p", "a", "r", "s", "i", "n", "g", " ", "A", "I", " ",
    "r", "e", "s", "p", "o", "n", "s", "e", ".">>
S_low == <<"L", "o", "w">>
S_format_error ==
  <<"F", "o", "r", "m", "a", "t", " ", "e", "r", "r", "o", "r">>

\* The fields of ExplanationResponse (main.py) and the keys SYSTEM_PROMPT asks for.
SixKeys ==
  {K_what_it_is, K_human_connection, K_social_influence, K_relevant_studies,
   K_confidence_level, K_confidence_reason}

\* --------------------------------------------------------- Python str methods

\* s[i..] starts with pat.
StartsWithAt(s, pat, i) ==
  /\ i + Len(pat) - 1 <= Len(s)
  /\ \A k \in 1..Len(pat) : s[i + k - 1] = pat[k]

\* str.find(old, lo): the least index j >= lo at which old occurs in s,
\* Len(s) + 1 when there is none.
FirstMatch(s, old, lo) ==
  IF \E j \in lo..Len(s) : StartsWithAt(s, old, j)
  THEN CHOOSE j \in lo..Len(s) :
         StartsWithAt(s, old, j) /\ \A k \in lo..(j - 1) : ~StartsWithAt(s, old, k)
  ELSE Len(s) + 1

\* str.replace(old, ""), on s[i..]: the leftmost occurrence is removed and the
\* scan resumes after it, so occurrences never overlap and the text that a
\* removal joins is not scanned again.
RECURSIVE ReplaceFrom(_, _, _)
ReplaceFrom(s, old, i) ==
  LET m == FirstMatch(s, old, i)
  IN  IF m > Len(s) THEN SubSeq(s, i, Len(s))
      ELSE SubSeq(s, i, m - 1) \o ReplaceFrom(s, old, m + Len(old))

str_replace(s, old) == ReplaceFrom(s, old, 1)

\* The characters str.strip() removes, among those of the model's texts.
PY_WHITESPACE == {" ", "\n", "\t", "\r"}

str_strip(s) ==
  SubSeq(s, FirstOutside(s, 1, PY_WHITESPACE), LastOutside(s, PY_WHITESPACE))

\* Cleanup with the two replacements in the other order: the short marker is
\* removed first, which leaves the word json of the long marker behind.
Cleanup_short_marker_first(raw) ==
  str_strip(str_replace(str_replace(raw, FENCE), FENCE_JSON))

\* response.text.replace(FENCE_JSON, "").replace(FENCE, "").strip()
Cleanup(raw) == str_strip(str_replace(str_replace(raw, FENCE_JSON), FENCE))

\* ------------------------------------------------------------- Python values

\* A decoded JSON value. One record shape for every kind, so that any two
\* values compare: kind is "dict", "list", "str", "None", "True", "False",
\* "nan" or "inf"; a dict's members map each key to its value.
PyValue(kind, str, items, members) ==
  [kind |-> kind, str |-> str, items |-> items, members |-> members]

PyStr(s) == PyValue("str", s, <<>>, <<>>)
PyList(xs) == PyValue("list", <<>>, xs, <<>>)
PyDict(m) == PyValue("dict", <<>>, <<>>, m)
PyConst(kind) == PyValue(kind, <<>>, <<>>, <<>>)
PyNone == PyConst("None")

\* The members of {}.
NoMembers == [k \in {} |-> PyNone]

\* d[k] = v on a dict's members: a repeated key keeps the last value.
DictPut(m, k, v) ==
  [x \in (DOMAIN m) \cup {k} |-> IF x = k THEN v ELSE m[x]]

\* ----------------------------------------------------------------- json.loads

\* The outcome of a scan: err is "" (val decoded, the scan stopped before
\* index end), "JSONDecodeError" or "RecursionError"; msg is str(e).
Decoded(v, e) == [err |-> "", msg |-> "", val |-> v, end |-> e]
Raise(kind, msg) == [err |-> kind, msg |-> msg, val |-> PyNone, end |-> 0]
JSONDecodeError == Raise("JSONDecodeError", "Expecting value")
RecursionError(what) ==
  Raise("RecursionError",
        IF what = "{"
        THEN "maximum recursion depth exceeded while decoding a JSON object from a unicode string"
        ELSE "maximum recursion depth exceeded while decoding a JSON array from a unicode string")

JSON_WHITESPACE == {" ", "\t", "\n", "\r"}

\* WHITESPACE.match(s, i).end()
SkipWS(s, i) == FirstOutside(s, i, JSON_WHITESPACE)

\* Characters json.loads (strict) refuses inside a string.
CONTROL_CHARS == {"\n", "\t", "\r"}

\* scanstring(s, i): i is the index after the opening quote. The model's texts
\* hold no backslash, so a string ends at the next quote.
scanstring(s, i) ==
  LET q == FirstChar(s, i, "\"")
  IN  IF q > Len(s) THEN JSONDecodeError
      ELSE IF \E k \in i..(q - 1) : s[k] \in CONTROL_CHARS THEN JSONDecodeError
      ELSE Decoded(PyStr(SubSeq(s, i, q - 1)), q + 1)

L_null == <<"n", "u", "l", "l">>
L_true == <<"t", "r", "u", "e">>
L_false == <<"f", "a", "l", "s", "e">>
L_NaN == <<"N", "a", "N">>
L_Infinity == <<"I", "n", "f", "i", "n", "i", "t", "y">>

\* scan_once(s, i) with depth containers open: a value starting at s[i].
\* Entering a container with limit of them open raises RecursionError.
\* Numbers and -Infinity need a digit or a minus sign, which no text of the
\* model holds.
RECURSIVE scan_once(_, _, _, _), ObjectMembers(_, _, _, _, _), ArrayItems(_, _, _, _, _)
scan_once(s, i, depth, limit) ==
  IF i > Len(s) THEN JSONDecodeError
  ELSE IF s[i] = "\"" THEN scanstring(s, i + 1)
  ELSE IF s[i] \in {"{", "["} /\ depth >= limit THEN RecursionError(s[i])
  ELSE IF s[i] = "{" THEN
         LET p == SkipWS(s, i + 1)
         IN  IF p <= Len(s) /\ s[p] = "}" THEN Decoded(PyDict(NoMembers), p + 1)
             ELSE ObjectMembers(s, p, depth + 1, limit, NoMembers)
  ELSE IF s[i] = "[" THEN
         LET p == SkipWS(s, i + 1)
         IN  IF p <= Len(s) /\ s[p] = "]" THEN Decoded(PyList(<<>>), p + 1)
             ELSE ArrayItems(s, p, depth + 1, limit, <<>>)
  ELSE IF StartsWithAt(s, L_null, i) THEN Decoded(PyNone, i + 4)
  ELSE IF StartsWithAt(s, L_true, i) THEN Decoded(PyConst("True"), i + 4)
  ELSE IF StartsWithAt(s, L_false, i) THEN Decoded(PyConst("False"), i + 5)
  ELSE IF StartsWithAt(s, L_NaN, i) THEN Decoded(PyConst("nan"), i + 3)
  ELSE IF StartsWithAt(s, L_Infinity, i) THEN Decoded(PyConst("inf"), i + 8)
  ELSE JSONDecodeError

\* JSONObject's loop: p is where the next key's opening quote must be.
ObjectMembers(s, p, depth, limit, acc) ==
  IF p > Len(s) \/ s[p] # "\"" THEN JSONDecodeError
  ELSE LET k == scanstring(s, p + 1)
       IN  IF k.err # "" THEN k
           ELSE LET c == SkipWS(s, k.end)
                IN  IF c > Len(s) \/ s[c] # ":" THEN JSONDecodeError
                    ELSE LET v == scan_once(s, SkipWS(s, c + 1), depth, limit)
                         IN  IF v.err # "" THEN v
                             ELSE LET d == SkipWS(s, v.end)
                                      acc2 == DictPut(acc, k.val.str, v.val)
                                  IN  IF d > Len(s) THEN JSONDecodeError
                                      ELSE IF s[d] = "}" THEN Decoded(PyDict(acc2), d + 1)
                                      ELSE IF s[d] = ","
                                           THEN ObjectMembers(s, SkipWS(s, d + 1), depth, limit, acc2)
                                      ELSE JSONDecodeError

\* JSONArray's loop: p is where the next item must start.
ArrayItems(s, p, depth, limit, acc) ==
  LET v == scan_once(s, p, depth, limit)
  IN  IF v.err # "" THEN v
      ELSE LET d == SkipWS(s, v.end)
               acc2 == Append(acc, v.val)
           IN  IF d > Len(s) THEN JSONDecodeError
               ELSE IF s[d] = "]" THEN Decoded(PyList(acc2), d + 1)
               ELSE IF s[d] = "," THEN ArrayItems(s, SkipWS(s, d + 1), depth, limit, acc2)
               ELSE JSONDecodeError

\* JSONDecoder.decode: one value, whitespace around it, nothing after it.
Decode(s, limit) ==
  LET r == scan_once(s, SkipWS(s, 1), 0, limit)
  IN  IF r.err # "" THEN r
      ELSE IF SkipWS(s, r.end) # Len(s) + 1 THEN JSONDecodeError
      ELSE r

json_loads(s) == Decode(s, RecursionLimit)

\* ---------------------------------------------------------------- the service

\* The two deployments of the service: src/main.py and src/api/index.py.
Apps == {"main", "index"}
Reqs == 1..NReq
Handlers == Apps \X Reqs

\* os.getenv / os.environ.get of a variable: None when it is unset, else its
\* value, which may be the empty string.
NoneKey == [none |-> TRUE, value |-> ""]
KeyOf(v) == [none |-> FALSE, value |-> v]
EnvValues == {NoneKey, KeyOf(""), KeyOf("AIza-test-key")}

\* Python's truth value of a str-or-None.
Truthy(k) == ~k.none /\ k.value # ""

\* What model.generate_content does for a request: it raises an exception
\* whose str() is msg, or returns a response whose .text is text.
UpRaise(msg) == [kind |-> "raise", msg |-> msg, text |-> <<>>]
UpText(t) == [kind |-> "text", msg |-> "", text |-> t]

\* The response of the endpoint. status 0: none yet.
NoReply == [status |-> 0, detail |-> "", body |-> PyNone]
HTTPException(status_code, detail) ==
  [status |-> status_code, detail |-> detail, body |-> PyNone]
\* A value the handler returns, which FastAPI sends as the body of a 200.
Return(data) == [status |-> 200, detail |-> "", body |-> data]

\* SYSTEM_PROMPT of each file, by the one line in which the two differ.
main_SYSTEM_PROMPT ==
  "6. Confidence reason: A very short justification (e.g. \"Decades of study\" or \"New emerging field\")."
index_SYSTEM_PROMPT ==
  "6. Confidence reason: A very short justification."

\* f"{SYSTEM_PROMPT}\n\nUSER TOPIC: {request.topic}\n\nRespond in JSON."
main_full_prompt(t) ==
  <<main_SYSTEM_PROMPT, "\n\nUSER TOPIC: ", t, "\n\nRespond in JSON.">>
index_full_prompt(t) ==
  <<index_SYSTEM_PROMPT, "\n\nUSER TOPIC: ", t, "\n\nRespond in JSON.">>

\* The dict returned on json.JSONDecodeError.
main_fallback(text) ==
  PyDict((K_what_it_is :> PyStr(S_error_parsing))
         @@ (K_human_connection :> PyStr(text))
         @@ (K_social_influence :> PyStr(<<>>))
         @@ (K_relevant_studies :> PyStr(<<>>))
         @@ (K_confidence_level :> PyStr(S_low))
         @@ (K_confidence_reason :> PyStr(S_format_error)))
index_fallback(text) ==
  PyDict((K_what_it_is :> PyStr(S_error_parsing))
         @@ (K_human_connection :> PyStr(text))
         @@ (K_social_influence :> PyStr(<<>>))
         @@ (K_relevant_studies :> PyStr(<<>>))
         @@ (K_confidence_level :> PyStr(S_low))
         @@ (K_confidence_reason :> PyStr(S_format_error)))

VARIABLES
  GOOGLE_API_KEY,  \* per app: the module global read from the environment at import
  live,            \* the handlers that run: (app, request) pairs
  topic,           \* per request: request.topic
  upstream,        \* per request: what generate_content will do for it
  pc,              \* per handler: "received", "try", "responded", "done"
  calls,           \* per handler: the number of generate_content calls made
  full_prompt,     \* per handler: the prompt passed to generate_content
  response,        \* per handler: response.text, as returned
  text_response,   \* per handler: the local text_response
  reply            \* per handler: the HTTP response

vars ==
  <<GOOGLE_API_KEY, live, topic, upstream, pc, calls, full_prompt, response,
    text_response, reply>>

\* ----------------------------------------------------- explain_topic, main.py

\* main_check without the test of the key: the handler always goes on.
main_check_unchecked(r) ==
  LET h == <<"main", r>>
  IN  /\ h \in live
      /\ pc[h] = "received"
      /\ pc' = [pc EXCEPT ![h] = "try"]
      /\ UNCHANGED <<GOOGLE_API_KEY, live, topic, upstream, calls, full_prompt,
                     response, text_response, reply>>

\* if not GOOGLE_API_KEY: raise HTTPException(500, "API Key not configured.")
main_check(r) ==
  LET h == <<"main", r>>
  IN  /\ h \in live
      /\ pc[h] = "received"
      /\ \/ /\ ~Truthy(GOOGLE_API_KEY["main"])
            /\ reply' = [reply EXCEPT ![h] = HTTPException(500, "API Key not configured.")]
            /\ pc' = [pc EXCEPT ![h] = "done"]
         \/ /\ Truthy(GOOGLE_API_KEY["main"])
            /\ pc' = [pc EXCEPT ![h] = "try"]
            /\ UNCHANGED reply
      /\ UNCHANGED <<GOOGLE_API_KEY, live, topic, upstream, calls, full_prompt,
                     response, text_response>>

\* main_generate with one retry of a failed call.
main_generate_retry(r) ==
  LET h == <<"main", r>>
  IN  /\ h \in live
      /\ pc[h] = "try"
      /\ full_prompt' = [full_prompt EXCEPT ![h] = main_full_prompt(topic[r])]
      /\ calls' = [calls EXCEPT ![h] = @ + 1]
      /\ \/ /\ upstream[r].kind = "raise"
            /\ calls[h] = 0
            /\ UNCHANGED <<pc, reply, response>>
         \/ /\ upstream[r].kind = "raise"
            /\ calls[h] > 0
            /\ reply' = [reply EXCEPT ![h] = HTTPException(500, upstream[r].msg)]
            /\ pc' = [pc EXCEPT ![h] = "done"]
            /\ UNCHANGED response
         \/ /\ upstream[r].kind = "text"
            /\ response' = [response EXCEPT ![h] = upstream[r].text]
            /\ pc' = [pc EXCEPT ![h] = "responded"]
            /\ UNCHANGED reply
      /\ UNCHANGED <<GOOGLE_API_KEY, live, topic, upstream, text_response>>

\* main_generate with a failed call answered by the fallback dict instead of
\* an HTTPException.
main_generate_swallow(r) ==
  LET h == <<"main", r>>
  IN  /\ h \in live
      /\ pc[h] = "try"
      /\ full_prompt' = [full_prompt EXCEPT ![h] = main_full_prompt(topic[r])]
      /\ calls' = [calls EXCEPT ![h] = @ + 1]
      /\ \/ /\ upstream[r].kind = "raise"
            /\ reply' = [reply EXCEPT ![h] = Return(main_fallback(<<>>))]
            /\ pc' = [pc EXCEPT ![h] = "done"]
            /\ UNCHANGED response
         \/ /\ upstream[r].kind = "text"
            /\ response' = [response EXCEPT ![h] = upstream[r].text]
            /\ pc' = [pc EXCEPT ![h] = "responded"]
            /\ UNCHANGED reply
      /\ UNCHANGED <<GOOGLE_API_KEY, live, topic, upstream, text_response>>

\* main_generate with the response kept in a module global, which every
\* handler of the process then reads.
main_generate_shared(r) ==
  LET h == <<"main", r>>
  IN  /\ h \in live
      /\ pc[h] = "try"
      /\ full_prompt' = [full_prompt EXCEPT ![h] = main_full_prompt(topic[r])]
      /\ calls' = [calls EXCEPT ![h] = @ + 1]
      /\ \/ /\ upstream[r].kind = "raise"
            /\ reply' = [reply EXCEPT ![h] = HTTPException(500, upstream[r].msg)]
            /\ pc' = [pc EXCEPT ![h] = "done"]
            /\ UNCHANGED response
         \/ /\ upstream[r].kind = "text"
            /\ response' = [g \in Handlers |->
                              IF g[1] = "main" THEN upstream[r].text ELSE response[g]]
            /\ pc' = [pc EXCEPT ![h] = "responded"]
            /\ UNCHANGED reply
      /\ UNCHANGED <<GOOGLE_API_KEY, live, topic, upstream, text_response>>

\* response = model.generate_content(full_prompt); an exception it raises is
\* caught by "except Exception as e" and becomes HTTPException(500, str(e)).
main_generate(r) ==
  LET h == <<"main", r>>
  IN  /\ h \in live
      /\ pc[h] = "try"
      /\ full_prompt' = [full_prompt EXCEPT ![h] = main_full_prompt(topic[r])]
      /\ calls' = [calls EXCEPT ![h] = @ + 1]
      /\ \/ /\ upstream[r].kind = "raise"
            /\ reply' = [reply EXCEPT ![h] = HTTPException(500, upstream[r].msg)]
            /\ pc' = [pc EXCEPT ![h] = "done"]
            /\ UNCHANGED response
         \/ /\ upstream[r].kind = "text"
            /\ response' = [response EXCEPT ![h] = upstream[r].text]
            /\ pc' = [pc EXCEPT ![h] = "responded"]
            /\ UNCHANGED reply
      /\ UNCHANGED <<GOOGLE_API_KEY, live, topic, upstream, text_response>>

\* The cleanup, json.loads and the three ways out: return data, return the
\* fallback on JSONDecodeError, HTTPException(500, str(e)) on any other
\* exception.
main_finish(r) ==
  LET h == <<"main", r>>
      text == Cleanup(response[h])
      data == json_loads(text)
  IN  /\ h \in live
      /\ pc[h] = "responded"
      /\ text_response' = [text_response EXCEPT ![h] = text]
      /\ pc' = [pc EXCEPT ![h] = "done"]
      /\ \/ /\ data.err = ""
            /\ reply' = [reply EXCEPT ![h] = Return(data.val)]
         \/ /\ data.err = "JSONDecodeError"
            /\ reply' = [reply EXCEPT ![h] = Return(main_fallback(text))]
         \/ /\ data.err \notin {"", "JSONDecodeError"}
            /\ reply' = [reply EXCEPT ![h] = HTTPException(500, data.msg)]
      /\ UNCHANGED <<GOOGLE_API_KEY, live, topic, upstream, calls, full_prompt, response>>

\* ------------------------------------------------ explain_topic, api/index.py

\* index_check with "GOOGLE_API_KEY is None" for "not GOOGLE_API_KEY": an
\* empty key passes.
index_check_none_only(r) ==
  LET h == <<"index", r>>
  IN  /\ h \in live
      /\ pc[h] = "received"
      /\ \/ /\ GOOGLE_API_KEY["index"].none
            /\ reply' = [reply EXCEPT ![h] = HTTPException(500, "API Key not configured.")]
            /\ pc' = [pc EXCEPT ![h] = "done"]
         \/ /\ ~GOOGLE_API_KEY["index"].none
            /\ pc' = [pc EXCEPT ![h] = "try"]
            /\ UNCHANGED reply
      /\ UNCHANGED <<GOOGLE_API_KEY, live, topic, upstream, calls, full_prompt,
                     response, text_response>>

\* if not GOOGLE_API_KEY: raise HTTPException(500, "API Key not configured.")
index_check(r) ==
  LET h == <<"index", r>>
  IN  /\ h \in live
      /\ pc[h] = "received"
      /\ \/ /\ ~Truthy(GOOGLE_API_KEY["index"])
            /\ reply' = [reply EXCEPT ![h] = HTTPException(500, "API Key not configured.")]
            /\ pc' = [pc EXCEPT ![h] = "done"]
         \/ /\ Truthy(GOOGLE_API_KEY["index"])
            /\ pc' = [pc EXCEPT ![h] = "try"]
            /\ UNCHANGED reply
      /\ UNCHANGED <<GOOGLE_API_KEY, live, topic, upstream, calls, full_prompt,
                     response, text_response>>

index_generate(r) ==
  LET h == <<"index", r>>
  IN  /\ h \in live
      /\ pc[h] = "try"
      /\ full_prompt' = [full_prompt EXCEPT ![h] = index_full_prompt(topic[r])]
      /\ calls' = [calls EXCEPT ![h] = @ + 1]
      /\ \/ /\ upstream[r].kind = "raise"
            /\ reply' = [reply EXCEPT ![h] = HTTPException(500, upstream[r].msg)]
            /\ pc' = [pc EXCEPT ![h] = "done"]
            /\ UNCHANGED response
         \/ /\ upstream[r].kind = "text"
            /\ response' = [response EXCEPT ![h] = upstream[r].text]
            /\ pc' = [pc EXCEPT ![h] = "responded"]
            /\ UNCHANGED reply
      /\ UNCHANGED <<GOOGLE_API_KEY, live, topic, upstream, text_response>>

index_finish(r) ==
  LET h == <<"index", r>>
      text == Cleanup(response[h])
      data == json_loads(text)
  IN  /\ h \in live
      /\ pc[h] = "responded"
      /\ text_response' = [text_response EXCEPT ![h] = text]
      /\ pc' = [pc EXCEPT ![h] = "done"]
      /\ \/ /\ data.err = ""
            /\ reply' = [reply EXCEPT ![h] = Return(data.val)]
         \/ /\ data.err = "JSONDecodeError"
            /\ reply' = [reply EXCEPT ![h] = Return(index_fallback(text))]
         \/ /\ data.err \notin {"", "JSONDecodeError"}
            /\ reply' = [reply EXCEPT ![h] = HTTPException(500, data.msg)]
      /\ UNCHANGED <<GOOGLE_API_KEY, live, topic, upstream, calls, full_prompt, response>>

Next ==
  \E r \in Reqs :
    \/ main_check(r)
    \/ main_generate(r)
    \/ main_finish(r)
    \/ index_check(r)
    \/ index_generate(r)
    \/ index_finish(r)

\* ------------------------------------------------------------------- inputs

Quoted(s) == <<"\"">> \o s \o <<"\"">>

\* An object with the six keys, as the prompt asks for it.
SixKeyText ==
  <<"{">> \o Quoted(K_what_it_is) \o <<":">> \o Quoted(<<>>)
  \o <<",">> \o Quoted(K_human_connection) \o <<":">> \o Quoted(<<>>)
  \o <<",">> \o Quoted(K_social_influence) \o <<":">> \o Quoted(<<>>)
  \o <<",">> \o Quoted(K_relevant_studies) \o <<":">> \o Quoted(<<>>)
  \o <<",">> \o Quoted(K_confidence_level) \o <<":">> \o Quoted(<<>>)
  \o <<",">> \o Quoted(K_confidence_reason) \o <<":">> \o Quoted(<<>>)
  \o <<"}">>

\* Containers opened one more deep than the scanner allows, never closed.
DeepNest == [i \in 1..(RecursionLimit + 1) |-> "["]

\* The pieces upstream texts are made of: the two fence markers, the word
\* json, a line break, the start and the end of an object with one string
\* member, the constant NaN and DeepNest.
Pieces ==
  { FENCE_JSON, FENCE, <<"j", "s", "o", "n">>, <<"\n">>,
    <<"{">> \o Quoted(<<"k">>) \o <<":", "\"">>, <<"\"", "}">>,
    L_NaN, DeepNest }

RECURSIVE TextsOf(_, _)
TextsOf(P, n) ==
  IF n = 0 THEN {<<>>}
  ELSE LET shorter == TextsOf(P, n - 1)
       IN  shorter \cup {t \o p : t \in shorter, p \in P}

\* The upstream texts of the sequential specification: every text of at most
\* MaxPieces pieces, the six-key object, and that object between fence lines.
Texts ==
  TextsOf(Pieces, MaxPieces)
  \cup {SixKeyText, FENCE_JSON \o <<"\n">> \o SixKeyText \o <<"\n">> \o FENCE}

Messages == {"503 Service Unavailable", "API key not valid."}
Topics == {"", "gravity"}

Outcomes(T) == {UpRaise(m) : m \in Messages} \cup {UpText(t) : t \in T}

InitHandlers(L) ==
  /\ live = L
  /\ pc = [h \in Handlers |-> "received"]
  /\ calls = [h \in Handlers |-> 0]
  /\ full_prompt = [h \in Handlers |-> <<>>]
  /\ response = [h \in Handlers |-> <<>>]
  /\ text_response = [h \in Handlers |-> <<>>]
  /\ reply = [h \in Handlers |-> NoReply]

\* One request, any upstream behaviour, served by both deployments, which
\* read the same environment.
Init ==
  /\ \E e \in EnvValues : GOOGLE_API_KEY = [a \in Apps |-> e]
  /\ \E t \in Topics : topic = [r \in Reqs |-> IF r = 1 THEN t ELSE ""]
  /\ \E u \in Outcomes(Texts) :
       upstream = [r \in Reqs |-> IF r = 1 THEN u ELSE UpText(<<>>)]
  /\ InitHandlers(Apps \X {1})

Spec == Init /\ [][Next]_vars

\* Requests handled concurrently by one deployment, each with its own topic
\* and its own upstream behaviour.
ConcOutcomes ==
  { UpRaise("503 Service Unavailable"),
    UpText(<<"j", "s", "o", "n">>),
    UpText(FENCE_JSON \o <<"{">> \o Quoted(<<"k">>) \o <<":">> \o Quoted(<<>>) \o <<"}">> \o FENCE),
    UpText(DeepNest) }

InitConc ==
  /\ \E e \in EnvValues : GOOGLE_API_KEY = [a \in Apps |-> e]
  /\ topic \in [Reqs -> Topics]
  /\ upstream \in [Reqs -> ConcOutcomes]
  /\ \E a \in Apps : InitHandlers({a} \X Reqs)

SpecConc == InitConc /\ [][Next]_vars

\* Two requests to one deployment: the upstream returns a text X for the
\* first and X between fence markers for the second.
FencePieces ==
  { <<BQ>>, FENCE, <<"j", "s", "o", "n">>, <<"\n">>,
    <<"{">> \o Quoted(<<"k">>) \o <<":", "\"">>, <<"\"", "}">>, DeepNest }

FenceBodies == TextsOf(FencePieces, MaxPieces - 1)

Leads == {FENCE, FENCE_JSON}
Separators == {<<>>, <<"\n">>}

Wrap(lead, sep, X) == lead \o sep \o X \o sep \o FENCE

InitFence ==
  /\ \E e \in EnvValues : GOOGLE_API_KEY = [a \in Apps |-> e]
  /\ topic = [r \in Reqs |-> "gravity"]
  /\ \/ \E m \in Messages : upstream = [r \in Reqs |-> UpRaise(m)]
     \/ \E X \in FenceBodies, lead \in Leads, sep \in Separators :
          upstream = [r \in Reqs |-> IF r = 2 THEN UpText(Wrap(lead, sep, X))
                                               ELSE UpText(X)]
  /\ \E a \in Apps : InitHandlers({a} \X {1, 2})

SpecFence == InitFence /\ [][Next]_vars

\* ------------------------------------------------------------------- claims

Done(h) == h \in live /\ pc[h] = "done"
Configured(h) == Truthy(GOOGLE_API_KEY[h[1]])
ConfigurationError == HTTPException(500, "API Key not configured.")

\* A handler that was given a text by the upstream and has answered.
AnsweredText(h) ==
  Done(h) /\ Configured(h) /\ upstream[h[2]].kind = "text"

\* NaN or Infinity somewhere in a decoded value: json.loads accepts them,
\* JSON (RFC 8259) does not.
RECURSIVE HasNonFinite(_)
HasNonFinite(v) ==
  \/ v.kind \in {"nan", "inf"}
  \/ v.kind = "list" /\ \E i \in DOMAIN v.items : HasNonFinite(v.items[i])
  \/ v.kind = "dict" /\ \E k \in DOMAIN v.members : HasNonFinite(v.members[k])

\* t is a JSON text: the grammar decides, with no limit on the nesting.
ValidJSON(t) ==
  LET d == Decode(t, Len(t) + 1)
  IN  d.err = "" /\ ~HasNonFinite(d.val)

\* The value a JSON text denotes.
Denoted(t) == Decode(t, Len(t) + 1).val

\* The fallback result as the specification words it.
FixedFallback(text) ==
  PyDict([k \in SixKeys |->
            IF k = K_what_it_is THEN PyStr(S_error_parsing)
            ELSE IF k = K_human_connection THEN PyStr(text)
            ELSE IF k = K_confidence_level THEN PyStr(S_low)
            ELSE IF k = K_confidence_reason THEN PyStr(S_format_error)
            ELSE PyStr(<<>>)])

\* C1: every success response has all six keys, whatever the upstream
\* returned.
C1_SixKeysAlways ==
  \A h \in live :
    reply[h].status = 200 =>
      /\ reply[h].body.kind = "dict"
      /\ \A k \in SixKeys : k \in DOMAIN reply[h].body.members

\* C2: with no credential (unset, or empty) the handler never calls the
\* upstream, composes no prompt, and answers 500 "API Key not configured.".
C2_NoKeyNoCall ==
  \A h \in live :
    ~Configured(h) =>
      /\ calls[h] = 0
      /\ full_prompt[h] = <<>>
      /\ pc[h] \in {"received", "done"}
      /\ pc[h] = "done" => reply[h] = ConfigurationError
      /\ pc[h] # "done" => reply[h] = NoReply

\* C2 witness: the key is unset, the upstream would have returned a text, and
\* the request is answered.
C2_Witness ==
  \E h \in live :
    /\ GOOGLE_API_KEY[h[1]].none
    /\ upstream[h[2]].kind = "text"
    /\ pc[h] = "done"
    /\ reply[h] = ConfigurationError

\* C3: a text that is not JSON after cleanup is answered by exactly the
\* fixed fallback, with the cleaned text as human_connection.
C3_InvalidJsonGivesFallback ==
  \A h \in live :
    (AnsweredText(h) /\ ~ValidJSON(Cleanup(upstream[h[2]].text))) =>
      reply[h] = Return(FixedFallback(Cleanup(upstream[h[2]].text)))

\* C4: a raw output that is a JSON object is returned as the object it
\* denotes, whatever its keys and string values.
C4_ObjectReturnedUnmodified ==
  \A h \in live :
    (/\ AnsweredText(h)
     /\ ValidJSON(upstream[h[2]].text)
     /\ Denoted(upstream[h[2]].text).kind = "dict") =>
      reply[h] = Return(Denoted(upstream[h[2]].text))

\* X starts with at most two backquotes followed by the word json, so that a
\* bare triple backquote put directly before X ends in the long marker.
BeginsWithJsonTag(X) ==
  \E n \in 0..2 :
    /\ \A i \in 1..n : i <= Len(X) /\ X[i] = BQ
    /\ StartsWithAt(X, <<"j", "s", "o", "n">>, n + 1)

\* The leading marker stays apart from X.
Separated(lead, sep, X) ==
  sep # <<>> \/ lead = FENCE_JSON \/ ~BeginsWithJsonTag(X)

\* Request 2 of deployment a got request 1's text between the markers.
WrappedPair(a, lead, sep) ==
  /\ Done(<<a, 1>>)
  /\ Done(<<a, 2>>)
  /\ upstream[1].kind = "text"
  /\ upstream[2].kind = "text"
  /\ upstream[2].text = Wrap(lead, sep, upstream[1].text)

\* C5, as amended: the wrapped text is answered like the bare one when the
\* leading marker stays apart from the text, and cleaning a cleaned text
\* changes nothing.
C5_FencesStrippedWhenSeparated ==
  /\ \A a \in Apps, lead \in Leads, sep \in Separators :
       (WrappedPair(a, lead, sep) /\ Separated(lead, sep, upstream[1].text)) =>
         reply[<<a, 2>>] = reply[<<a, 1>>]
  /\ \A h \in live :
       AnsweredText(h) => Cleanup(text_response[h]) = text_response[h]

\* C5 witness: an object between a json fence line and a closing fence line
\* is answered by the object, as the bare text is.
C5_Witness ==
  \E a \in Apps :
    /\ WrappedPair(a, FENCE_JSON, <<"\n">>)
    /\ Configured(<<a, 1>>)
    /\ reply[<<a, 2>>].status = 200
    /\ reply[<<a, 2>>].body.kind = "dict"
    /\ reply[<<a, 2>>] = reply[<<a, 1>>]

\* C5, as stated: the wrapped text is answered like the bare one for every
\* text and every way of wrapping it.
C5_FencesStrippedAlways ==
  \A a \in Apps, lead \in Leads, sep \in Separators :
    WrappedPair(a, lead, sep) => reply[<<a, 2>>] = reply[<<a, 1>>]

\* C6: with a credential and a failing upstream call the answer is 500 with
\* the exception's message as detail, and no result is ever produced.
C6_UpstreamFailureSurfaced ==
  \A h \in live :
    (Configured(h) /\ upstream[h[2]].kind = "raise") =>
      /\ reply[h].status # 200
      /\ reply[h].body = PyNone
      /\ pc[h] # "responded"
      /\ pc[h] = "done" => reply[h] = HTTPException(500, upstream[h[2]].msg)

\* C6 witness: a configured handler has answered a failed call.
C6_Witness ==
  \E h \in live :
    /\ Configured(h)
    /\ upstream[h[2]].kind = "raise"
    /\ pc[h] = "done"
    /\ reply[h].detail = "503 Service Unavailable"

\* C7: with a credential the upstream is called exactly once per request: at
\* most once at any time, and once when the call has returned or the request
\* is answered, for every topic and every outcome.
C7_ExactlyOneCall ==
  \A h \in live :
    /\ calls[h] <= 1
    /\ (Configured(h) /\ pc[h] \in {"responded", "done"}) => calls[h] = 1
    /\ pc[h] \in {"received", "try"} => calls[h] = 0

\* C7 witness: an empty topic, a text that triggers the fallback, one call.
C7_Witness ==
  \E h \in live :
    /\ AnsweredText(h)
    /\ topic[h[2]] = ""
    /\ reply[h] = Return(FixedFallback(text_response[h]))
    /\ calls[h] = 1

\* C8: with a credential and a call that returned a text the answer is a
\* success; a 500 comes only from a missing credential or a failed call.
C8_MalformedNeverAnError ==
  \A h \in live :
    Done(h) =>
      /\ (Configured(h) /\ upstream[h[2]].kind = "text") => reply[h].status = 200
      /\ reply[h].status = 500 => (~Configured(h) \/ upstream[h[2]].kind = "raise")

\* What one request gives when it is handled alone, from the key, its topic
\* and its upstream behaviour: the response and the number of calls.
ExplainAlone(a, key, t, u) ==
  IF ~Truthy(key) THEN [reply |-> ConfigurationError, calls |-> 0]
  ELSE IF u.kind = "raise" THEN [reply |-> HTTPException(500, u.msg), calls |-> 1]
  ELSE LET text == Cleanup(u.text)
           data == json_loads(text)
       IN  [reply |-> IF data.err = "" THEN Return(data.val)
                      ELSE IF data.err = "JSONDecodeError"
                           THEN Return(IF a = "main" THEN main_fallback(text)
                                                     ELSE index_fallback(text))
                      ELSE HTTPException(500, data.msg),
            calls |-> 1]

\* C9: whatever the interleaving, an answered request has the response and
\* the call count it would have alone, and the requests of one process agree
\* on whether the credential is configured.
C9_RequestsIndependent ==
  /\ \A h \in live :
       Done(h) =>
         LET alone == ExplainAlone(h[1], GOOGLE_API_KEY[h[1]], topic[h[2]], upstream[h[2]])
         IN  reply[h] = alone.reply /\ calls[h] = alone.calls
  /\ \A h \in live, g \in live :
       (h[1] = g[1] /\ Done(h) /\ Done(g)) =>
         ((reply[h] = ConfigurationError) <=> (reply[g] = ConfigurationError))

\* C9 witness: one request is answered while another of the same process,
\* given a different text, is between its call and its answer.
C9_Witness ==
  \E h \in live, g \in live :
    /\ h[1] = g[1]
    /\ h[2] # g[2]
    /\ Done(h)
    /\ reply[h].status = 200
    /\ pc[g] = "responded"
    /\ response[g] # response[h]

\* C10: the two copies answer a request alike and call the upstream equally
\* often, for every key, topic and upstream behaviour.
C10_CopiesEquivalent ==
  \A r \in Reqs :
    (Done(<<"main", r>>) /\ Done(<<"index", r>>)) =>
      /\ reply[<<"main", r>>] = reply[<<"index", r>>]
      /\ calls[<<"main", r>>] = calls[<<"index", r>>]

\* C10 witness: both copies have answered with the same result after sending
\* different prompts.
C10_Witness ==
  \E r \in Reqs :
    /\ Done(<<"main", r>>)
    /\ Done(<<"index", r>>)
    /\ reply[<<"main", r>>].status = 200
    /\ reply[<<"main", r>>] = reply[<<"index", r>>]
    /\ full_prompt[<<"main", r>>] # full_prompt[<<"index", r>>]
====
